---- MODULE Spec2Model ----
(***************************************************************************)
(* Model of the World / DataHelper control core of ecs-rs (src/world.rs):  *)
(* the deferred event queue, process_event, the immediate World calls and  *)
(* the two-phase update().  The entity registry (EntityManager, module     *)
(* `entity`) is not among the sources; it is modelled from section 4.1 of  *)
(* the specification as a generational slot table.                         *)
(***************************************************************************)
EXTENDS Integers, Sequences, FiniteSets, TLC

\* ---- bounds of the model ----
NumSlots == 2
MaxGen == 2
MaxQueue == 4
MaxOps == 5

Slots == 1..NumSlots
\* an Entity handle is <<slot, generation>>
Entity == Slots \X (1..MaxGen)
NoEntity == <<0, 0>>

\* what the component store holds for one entity
CompValues == {"none", "built", "modified", "touched"}

VARIABLES
  components,   \* DataHelper.components : Entity -> CompValues
  generation,   \* EntityManager: last generation issued per slot
  alive,        \* EntityManager: slot currently allocated
  event_queue,  \* DataHelper.event_queue : sequence of Event
  pc,           \* "idle" | "flush" | "process" : position inside World::update
  calls,        \* the collaborator calls made by the last step, in order
  lastOp,       \* the operation the last step belongs to, its entity, its result
  drained,      \* the queue as it was when the running update() started
  drainLog,     \* collaborator calls made so far by the running flush_queue
  processRuns,  \* number of times systems.update ran in the running update()
  tickCreated,  \* entities returned by DataHelper::create_entity in this process step
  removed,      \* entities for which a Remove event has been applied
  ops,          \* number of World / DataHelper calls made so far (bounded)
  life          \* per entity, where the hooks delivered so far have taken it

vars == <<components, generation, alive, event_queue, pc, calls, lastOp,
          drained, drainLog, processRuns, tickCreated, removed, ops, life>>

\* ---- Event (enum Event) ----
BuildEntity(e) == [type |-> "Build", entity |-> e]
ModifyEntity(e) == [type |-> "Modify", entity |-> e]
RemoveEntity(e) == [type |-> "Remove", entity |-> e]

\* ---- EntityManager, from the specification (section 4.1) ----
is_valid(e) == e[1] \in Slots /\ alive[e[1]] /\ generation[e[1]] = e[2]

FreeSlots == {s \in Slots : ~alive[s] /\ generation[s] < MaxGen}

CanCreate == FreeSlots # {}

NextSlot == CHOOSE s \in FreeSlots : \A t \in FreeSlots : s <= t

\* the handle entities.create() returns in the current state
NewEntity == <<NextSlot, generation[NextSlot] + 1>>

entities_create ==
  /\ alive' = [alive EXCEPT ![NextSlot] = TRUE]
  /\ generation' = [generation EXCEPT ![NextSlot] = @ + 1]

\* alive-table after entities.remove(e): a no-op on an invalid handle
entities_remove(al, e) == IF is_valid(e) THEN [al EXCEPT ![e[1]] = FALSE] ELSE al

\* handles handed out so far: the only ones host code and systems can hold
Issued == {e \in Entity : e[2] <= generation[e[1]]}

\* ---- collaborator calls as the systems / the store observe them ----
\* valid and comp are the registry's and the store's view of the entity
\* at the moment of the call
Call(name, e, co, al) ==
  [call |-> name, entity |-> e,
   valid |-> (al[e[1]] /\ generation[e[1]] = e[2]), comp |-> co[e]]

\* ---- ComponentManager and the callbacks ----
build(co, e) == [co EXCEPT ![e] = "built"]
modify(co, e) == [co EXCEPT ![e] = "modified"]
remove_all(co, e) == [co EXCEPT ![e] = "none"]
call_back(co, e) == [co EXCEPT ![e] = "touched"]

\* the calls that reach the systems (SystemManager), as opposed to the store
IsHook(c) == c.call \in {"activated", "reactivated", "deactivated"}

Op(name, e, res) == [op |-> name, entity |-> e, result |-> res]

\* ---- the lifecycle of an entity as the hooks delivered for it describe it ----
\* "none": no hook yet; "active": activated was the last of activated /
\* deactivated; "done": deactivated was
AdvanceOne(l, c) ==
  CASE c.call = "activated" -> [l EXCEPT ![c.entity] = "active"]
    [] c.call = "deactivated" -> [l EXCEPT ![c.entity] = "done"]
    [] OTHER -> l

RECURSIVE Advance(_, _)
Advance(l, cs) ==
  IF cs = <<>> THEN l ELSE Advance(AdvanceOne(l, Head(cs)), Tail(cs))

\* ---- System: the default hook bodies (system/mod.rs) ----
\* what a system that overrides no hook observes, as a sequence of hook calls
Seen(name, e) == [call |-> name, entity |-> e]

System_activated(e) == <<Seen("activated", e)>>

System_deactivated(e) == <<Seen("deactivated", e)>>

\* variant: the default calls activated first, then deactivated
System_reactivated_swapped(e) == System_activated(e) \o System_deactivated(e)

\* the default: deactivated() followed by activated()
System_reactivated(e) == System_deactivated(e) \o System_activated(e)

\* the SystemManager hands each of its hooks to the same hook of the system
System_dispatch(c) ==
  CASE c.call = "activated" -> System_activated(c.entity)
    [] c.call = "reactivated" -> System_reactivated(c.entity)
    [] c.call = "deactivated" -> System_deactivated(c.entity)
    [] OTHER -> <<>>

RECURSIVE SystemObserves(_)
\* the hook calls a default system observes from the collaborator calls cs
SystemObserves(cs) ==
  IF cs = <<>> THEN <<>>
  ELSE System_dispatch(Head(cs)) \o SystemObserves(Tail(cs))

\* ---- process_event: the deferred application function ----
\* variant: the hooks of Build and Modify are delivered before the callback
process_event_hook_first(event) ==
  LET e == event.entity IN
  CASE event.type = "Build" ->
         LET co == build(components, e) IN
         [components |-> co, alive |-> alive,
          calls |-> <<Call("activated", e, components, alive),
                      Call("build", e, components, alive)>>]
    [] event.type = "Modify" ->
         LET co == modify(components, e) IN
         [components |-> co, alive |-> alive,
          calls |-> <<Call("reactivated", e, components, alive),
                      Call("modify", e, components, alive)>>]
    [] event.type = "Remove" ->
         LET co == remove_all(components, e)
             al == entities_remove(alive, e) IN
         [components |-> co, alive |-> al,
          calls |-> <<Call("deactivated", e, components, alive),
                      Call("remove_all", e, components, alive),
                      Call("entities.remove", e, co, alive)>>]

\* variant: a Remove purges the store but leaves the registry alone
process_event_keeps_entity(event) ==
  LET e == event.entity IN
  CASE event.type = "Build" ->
         LET co == build(components, e) IN
         [components |-> co, alive |-> alive,
          calls |-> <<Call("build", e, components, alive),
                      Call("activated", e, co, alive)>>]
    [] event.type = "Modify" ->
         LET co == modify(components, e) IN
         [components |-> co, alive |-> alive,
          calls |-> <<Call("modify", e, components, alive),
                      Call("reactivated", e, co, alive)>>]
    [] event.type = "Remove" ->
         LET co == remove_all(components, e) IN
         [components |-> co, alive |-> alive,
          calls |-> <<Call("deactivated", e, components, alive),
                      Call("remove_all", e, components, alive)>>]

\* the store, the registry and the calls made, after applying one event
process_event(event) ==
  LET e == event.entity IN
  CASE event.type = "Build" ->
         LET co == build(components, e) IN
         [components |-> co, alive |-> alive,
          calls |-> <<Call("build", e, components, alive),
                      Call("activated", e, co, alive)>>]
    [] event.type = "Modify" ->
         LET co == modify(components, e) IN
         [components |-> co, alive |-> alive,
          calls |-> <<Call("modify", e, components, alive),
                      Call("reactivated", e, co, alive)>>]
    [] event.type = "Remove" ->
         LET co == remove_all(components, e)
             al == entities_remove(alive, e) IN
         [components |-> co, alive |-> al,
          calls |-> <<Call("deactivated", e, components, alive),
                      Call("remove_all", e, components, alive),
                      Call("entities.remove", e, co, alive)>>]

Removed(event) == IF event.type = "Remove" THEN {event.entity} ELSE {}

\* ---- DataHelper: the calls a system makes from inside its process step ----
\* variant: the callback runs without the validity test
DataHelper_with_entity_data_unchecked(e) ==
  /\ pc = "process"
  /\ ops < MaxOps
  /\ ops' = ops + 1
  /\ components' = call_back(components, e)
  /\ calls' = <<Call("callback", e, components, alive)>>
  /\ lastOp' = Op("DataHelper::with_entity_data", e, "Some")
  /\ UNCHANGED <<generation, alive, event_queue, pc, drained, drainLog,
                 processRuns, tickCreated, removed>>
  /\ life' = Advance(life, calls')

DataHelper_with_entity_data(e) ==
  /\ pc = "process"
  /\ ops < MaxOps
  /\ ops' = ops + 1
  /\ IF is_valid(e)
       THEN /\ components' = call_back(components, e)
            /\ calls' = <<Call("callback", e, components, alive)>>
            /\ lastOp' = Op("DataHelper::with_entity_data", e, "Some")
       ELSE /\ components' = components
            /\ calls' = <<>>
            /\ lastOp' = Op("DataHelper::with_entity_data", e, "None")
  /\ UNCHANGED <<generation, alive, event_queue, pc, drained, drainLog,
                 processRuns, tickCreated, removed>>
  /\ life' = Advance(life, calls')

DataHelper_create_entity ==
  /\ pc = "process"
  /\ ops < MaxOps
  /\ ops' = ops + 1
  /\ CanCreate
  /\ Len(event_queue) < MaxQueue
  /\ entities_create
  /\ event_queue' = Append(event_queue, BuildEntity(NewEntity))
  /\ tickCreated' = tickCreated \cup {NewEntity}
  /\ calls' = <<>>
  /\ lastOp' = Op("DataHelper::create_entity", NewEntity, "-")
  /\ UNCHANGED <<components, pc, drained, drainLog, processRuns, removed>>
  /\ life' = Advance(life, calls')

\* variant: the modification is applied at once instead of being queued
DataHelper_modify_entity_immediate(e) ==
  /\ pc = "process"
  /\ ops < MaxOps
  /\ ops' = ops + 1
  /\ LET r == process_event(ModifyEntity(e)) IN
       /\ components' = r.components
       /\ calls' = r.calls
  /\ lastOp' = Op("DataHelper::modify_entity", e, "-")
  /\ UNCHANGED <<generation, alive, event_queue, pc, drained, drainLog,
                 processRuns, tickCreated, removed>>
  /\ life' = Advance(life, calls')

DataHelper_modify_entity(e) ==
  /\ pc = "process"
  /\ ops < MaxOps
  /\ ops' = ops + 1
  /\ Len(event_queue) < MaxQueue
  /\ event_queue' = Append(event_queue, ModifyEntity(e))
  /\ calls' = <<>>
  /\ lastOp' = Op("DataHelper::modify_entity", e, "-")
  /\ UNCHANGED <<components, generation, alive, pc, drained, drainLog,
                 processRuns, tickCreated, removed>>
  /\ life' = Advance(life, calls')

\* variant: the removal is queued but the registry is updated at once
DataHelper_remove_entity_eager(e) ==
  /\ pc = "process"
  /\ ops < MaxOps
  /\ ops' = ops + 1
  /\ Len(event_queue) < MaxQueue
  /\ event_queue' = Append(event_queue, RemoveEntity(e))
  /\ alive' = entities_remove(alive, e)
  /\ calls' = <<>>
  /\ lastOp' = Op("DataHelper::remove_entity", e, "-")
  /\ UNCHANGED <<components, generation, pc, drained, drainLog,
                 processRuns, tickCreated, removed>>
  /\ life' = Advance(life, calls')

\* variant: the removal is applied at once instead of being queued
DataHelper_remove_entity_immediate(e) ==
  /\ pc = "process"
  /\ ops < MaxOps
  /\ ops' = ops + 1
  /\ LET r == process_event(RemoveEntity(e)) IN
       /\ components' = r.components
       /\ alive' = r.alive
       /\ calls' = r.calls
  /\ removed' = removed \cup {e}
  /\ lastOp' = Op("DataHelper::remove_entity", e, "-")
  /\ UNCHANGED <<generation, event_queue, pc, drained, drainLog,
                 processRuns, tickCreated>>
  /\ life' = Advance(life, calls')

DataHelper_remove_entity(e) ==
  /\ pc = "process"
  /\ ops < MaxOps
  /\ ops' = ops + 1
  /\ Len(event_queue) < MaxQueue
  /\ event_queue' = Append(event_queue, RemoveEntity(e))
  /\ calls' = <<>>
  /\ lastOp' = Op("DataHelper::remove_entity", e, "-")
  /\ UNCHANGED <<components, generation, alive, pc, drained, drainLog,
                 processRuns, tickCreated, removed>>
  /\ life' = Advance(life, calls')

\* ---- World: the calls host code makes between ticks ----
\* variant: the creation also leaves a Build event for the entity in the queue
World_create_entity_enqueues ==
  /\ pc = "idle"
  /\ ops < MaxOps
  /\ ops' = ops + 1
  /\ CanCreate
  /\ Len(event_queue) < MaxQueue
  /\ entities_create
  /\ LET e == NewEntity
         co == build(components, e) IN
       /\ components' = co
       /\ calls' = <<[call |-> "build", entity |-> e, valid |-> TRUE,
                      comp |-> components[e]],
                     [call |-> "activated", entity |-> e, valid |-> TRUE,
                      comp |-> co[e]]>>
       /\ event_queue' = Append(event_queue, BuildEntity(e))
       /\ lastOp' = Op("World::create_entity", e, "-")
  /\ UNCHANGED <<pc, drained, drainLog, processRuns, tickCreated, removed>>
  /\ life' = Advance(life, calls')

World_create_entity ==
  /\ pc = "idle"
  /\ ops < MaxOps
  /\ ops' = ops + 1
  /\ CanCreate
  /\ entities_create
  /\ LET e == NewEntity
         co == build(components, e) IN
       /\ components' = co
       /\ calls' = <<[call |-> "build", entity |-> e, valid |-> TRUE,
                      comp |-> components[e]],
                     [call |-> "activated", entity |-> e, valid |-> TRUE,
                      comp |-> co[e]]>>
       /\ lastOp' = Op("World::create_entity", e, "-")
  /\ UNCHANGED <<event_queue, pc, drained, drainLog, processRuns,
                 tickCreated, removed>>
  /\ life' = Advance(life, calls')

World_with_entity_data(e) ==
  /\ pc = "idle"
  /\ ops < MaxOps
  /\ ops' = ops + 1
  /\ IF is_valid(e)
       THEN /\ components' = call_back(components, e)
            /\ calls' = <<Call("callback", e, components, alive)>>
            /\ lastOp' = Op("World::with_entity_data", e, "Some")
       ELSE /\ components' = components
            /\ calls' = <<>>
            /\ lastOp' = Op("World::with_entity_data", e, "None")
  /\ UNCHANGED <<generation, alive, event_queue, pc, drained, drainLog,
                 processRuns, tickCreated, removed>>
  /\ life' = Advance(life, calls')

World_modify_entity(e) ==
  /\ pc = "idle"
  /\ ops < MaxOps
  /\ ops' = ops + 1
  /\ LET co == modify(components, e) IN
       /\ components' = co
       /\ calls' = <<Call("modify", e, components, alive),
                     Call("reactivated", e, co, alive)>>
  /\ lastOp' = Op("World::modify_entity", e, "-")
  /\ UNCHANGED <<generation, alive, event_queue, pc, drained, drainLog,
                 processRuns, tickCreated, removed>>
  /\ life' = Advance(life, calls')

World_remove_entity(e) ==
  /\ pc = "idle"
  /\ ops < MaxOps
  /\ ops' = ops + 1
  /\ LET r == process_event(RemoveEntity(e)) IN
       /\ components' = r.components
       /\ alive' = r.alive
       /\ calls' = r.calls
  /\ removed' = removed \cup {e}
  /\ lastOp' = Op("World::remove_entity", e, "-")
  /\ UNCHANGED <<generation, event_queue, pc, drained, drainLog,
                 processRuns, tickCreated>>
  /\ life' = Advance(life, calls')

\* ---- World::update = flush_queue, then systems.update ----
update_begin ==
  /\ pc = "idle"
  /\ ops' = ops
  /\ pc' = "flush"
  /\ drained' = event_queue
  /\ drainLog' = <<>>
  /\ processRuns' = 0
  /\ calls' = <<>>
  /\ lastOp' = Op("World::update", NoEntity, "-")
  /\ UNCHANGED <<components, generation, alive, event_queue, tickCreated,
                 removed>>
  /\ life' = Advance(life, calls')

\* variant: the drain loop stops one event early
drain_pending_short == Len(event_queue) > 1

\* the drain loop has events left to hand to process_event
drain_pending == event_queue # <<>>

\* variant: the drain hands out the newest event first
flush_queue_step_lifo ==
  /\ pc = "flush"
  /\ ops' = ops
  /\ drain_pending
  /\ LET event == event_queue[Len(event_queue)]
         r == process_event(event) IN
       /\ components' = r.components
       /\ alive' = r.alive
       /\ calls' = r.calls
       /\ drainLog' = drainLog \o r.calls
       /\ removed' = removed \cup Removed(event)
       /\ lastOp' = Op("flush_queue", event.entity, event.type)
  /\ event_queue' = SubSeq(event_queue, 1, Len(event_queue) - 1)
  /\ UNCHANGED <<generation, pc, drained, processRuns, tickCreated>>
  /\ life' = Advance(life, calls')

\* variant: the drain applies the first event and puts it back at the tail
flush_queue_step_requeue ==
  /\ pc = "flush"
  /\ ops' = ops
  /\ drain_pending
  /\ LET event == Head(event_queue)
         r == process_event(event) IN
       /\ components' = r.components
       /\ alive' = r.alive
       /\ calls' = r.calls
       /\ drainLog' = r.calls
       /\ removed' = removed \cup Removed(event)
       /\ lastOp' = Op("flush_queue", event.entity, event.type)
       /\ event_queue' = Append(Tail(event_queue), event)
  /\ UNCHANGED <<generation, pc, drained, processRuns, tickCreated>>
  /\ life' = Advance(life, calls')

\* one iteration of `for event in event_queue.drain()`
flush_queue_step ==
  /\ pc = "flush"
  /\ ops' = ops
  /\ drain_pending
  /\ LET event == Head(event_queue)
         r == process_event(event) IN
       /\ components' = r.components
       /\ alive' = r.alive
       /\ calls' = r.calls
       /\ drainLog' = drainLog \o r.calls
       /\ removed' = removed \cup Removed(event)
       /\ lastOp' = Op("flush_queue", event.entity, event.type)
  /\ event_queue' = Tail(event_queue)
  /\ UNCHANGED <<generation, pc, drained, processRuns, tickCreated>>
  /\ life' = Advance(life, calls')

\* flush_queue has returned: the systems' process step starts
systems_update_begin ==
  /\ pc = "flush"
  /\ ops' = ops
  /\ ~drain_pending
  /\ pc' = "process"
  /\ processRuns' = processRuns + 1
  /\ calls' = <<>>
  /\ lastOp' = Op("systems.update", NoEntity, "-")
  /\ UNCHANGED <<components, generation, alive, event_queue, drained,
                 drainLog, tickCreated, removed>>
  /\ life' = Advance(life, calls')

\* the process step and with it update() return
update_return ==
  /\ pc = "process"
  /\ ops' = ops
  /\ pc' = "idle"
  /\ calls' = <<>>
  /\ drained' = <<>>
  /\ drainLog' = <<>>
  /\ processRuns' = 0
  /\ tickCreated' = {}
  /\ lastOp' = Op("update returned", NoEntity, "-")
  /\ UNCHANGED <<components, generation, alive, event_queue, removed>>
  /\ life' = Advance(life, calls')

Init ==
  /\ components = [e \in Entity |-> "none"]
  /\ generation = [s \in Slots |-> 0]
  /\ alive = [s \in Slots |-> FALSE]
  /\ event_queue = <<>>
  /\ pc = "idle"
  /\ calls = <<>>
  /\ lastOp = Op("World::new", NoEntity, "-")
  /\ drained = <<>>
  /\ drainLog = <<>>
  /\ processRuns = 0
  /\ tickCreated = {}
  /\ removed = {}
  /\ ops = 0
  /\ life = [e \in Entity |-> "none"]

Next ==
  \/ World_create_entity
  \/ \E e \in Issued : World_with_entity_data(e)
  \/ \E e \in Issued : World_modify_entity(e)
  \/ \E e \in Issued : World_remove_entity(e)
  \/ update_begin
  \/ flush_queue_step
  \/ systems_update_begin
  \/ DataHelper_create_entity
  \/ \E e \in Issued : DataHelper_with_entity_data(e)
  \/ \E e \in Issued : DataHelper_modify_entity(e)
  \/ \E e \in Issued : DataHelper_remove_entity(e)
  \/ update_return

Spec == Init /\ [][Next]_vars

\* update() makes progress: the drain loop takes its next iteration,
\* systems.update is called when the loop ends, and it returns
FairSpec ==
  /\ Spec
  /\ WF_vars(flush_queue_step)
  /\ WF_vars(systems_update_begin)
  /\ WF_vars(update_return)

\* ======================================================================
\* Properties
\* ======================================================================

\* is_valid in the state a step leads to
ValidAfter(e) == alive'[e[1]] /\ generation'[e[1]] = e[2]

CallNames(cs) == [i \in DOMAIN cs |-> cs[i].call]

\* the last step applied a Remove event (drained or through the World)
AppliedRemove(op) ==
  \/ op.op = "World::remove_entity"
  \/ op.op = "flush_queue" /\ op.result = "Remove"

\* the last step made one of the three calls of a removal
HasRemovalCall(cs) ==
  \E i \in DOMAIN cs : cs[i].call \in {"deactivated", "remove_all", "entities.remove"}

\* a step that does nothing but append Remove(e) to the queue
OnlyAppendsRemove(e) ==
  /\ event_queue' = Append(event_queue, RemoveEntity(e))
  /\ calls' = <<>>
  /\ UNCHANGED <<components, generation, alive, removed>>

C2_RemoveStepsInOrder ==
  [][ AppliedRemove(lastOp')
        => LET e == lastOp'.entity IN
           /\ CallNames(calls') = <<"deactivated", "remove_all", "entities.remove">>
           /\ \A i \in DOMAIN calls' : calls'[i].entity = e
           /\ calls'[1].valid
           /\ calls'[1].comp = components[e]
           /\ calls'[2].valid
           /\ components'[e] = "none"
           /\ ~ValidAfter(e) ]_vars

HookEvent(c) ==
  [type |-> CASE c.call = "activated" -> "Build"
              [] c.call = "reactivated" -> "Modify"
              [] c.call = "deactivated" -> "Remove",
   entity |-> c.entity]

\* the events applied so far by the running drain, read off the hooks
AppliedEvents ==
  LET hs == SelectSeq(drainLog, IsHook) IN [i \in DOMAIN hs |-> HookEvent(hs[i])]

\* C3: two-phase update: while the drain runs the process step has not run;
\* when the process step begins the queue is empty and every event that was
\* queued at the start of update() has been applied; the process step runs
\* once per update().
C3_TwoPhaseUpdate ==
  /\ pc = "flush" => processRuns = 0
  /\ pc = "process" => /\ processRuns = 1
                       /\ Len(AppliedEvents) = Len(drained)
  /\ lastOp.op = "systems.update" => event_queue = <<>>
  /\ pc = "idle" => processRuns = 0

\* the process step begins after a drain that applied three events
C3_Witness ==
  /\ lastOp.op = "systems.update"
  /\ Len(drained) >= 3
  /\ Len(AppliedEvents) = Len(drained)
  /\ event_queue = <<>>

\* C4: the drain is FIFO and exactly-once: at every point of the drain the
\* hooks delivered so far are the hooks of a prefix of the queue as it was
\* at the start, and the queue holds the rest; when the drain ends the hook
\* sequence equals the whole enqueued sequence.
C4_DrainFifoExactlyOnce ==
  pc \in {"flush", "process"} =>
    /\ Len(AppliedEvents) <= Len(drained)
    /\ AppliedEvents = SubSeq(drained, 1, Len(AppliedEvents))
    /\ pc = "flush" =>
         event_queue = SubSeq(drained, Len(AppliedEvents) + 1, Len(drained))
    /\ pc = "process" => AppliedEvents = drained

\* the drain of Build(e1), Modify(e1), Remove(e1), Build(e2) has ended
C4_Witness ==
  /\ pc = "flush"
  /\ event_queue = <<>>
  /\ Len(drained) = 4
  /\ [i \in 1..4 |-> drained[i].type] = <<"Build", "Modify", "Remove", "Build">>
  /\ drained[2].entity = drained[1].entity
  /\ drained[3].entity = drained[1].entity
  /\ drained[4].entity # drained[1].entity
  /\ AppliedEvents = drained

BuiltIn(q) == {q[i].entity : i \in {j \in DOMAIN q : q[j].type = "Build"}}

\* C5: an entity created by DataHelper::create_entity is not reachable in
\* the same process step (with_entity_data on it yields None, it is not
\* valid, it has had no activated); when the next tick's process step is
\* about to run it has had activated and, unless removed, is valid.
C5_CreatedInProcessHiddenUntilNextTick ==
  /\ (lastOp.op = "DataHelper::with_entity_data" /\ lastOp.entity \in tickCreated)
       => lastOp.result = "None"
  /\ pc = "process" =>
       \A e \in tickCreated :
         ~\E i \in DOMAIN drainLog :
            drainLog[i].call = "activated" /\ drainLog[i].entity = e
  /\ (pc = "flush" /\ ~drain_pending) =>
       \A e \in BuiltIn(drained) :
         /\ \E i \in DOMAIN drainLog :
              drainLog[i].call = "activated" /\ drainLog[i].entity = e
         /\ e \notin removed => is_valid(e)

\* C6: applying a Remove event to an entity that a Remove has already been
\* applied to is a no-op: no deactivated, no remove_all.
C6_SecondRemoveIsNoOp ==
  [][ (AppliedRemove(lastOp') /\ lastOp'.entity \in removed)
        => /\ calls' = <<>>
           /\ components' = components
           /\ alive' = alive ]_vars

\* C7: a drained Build or Modify whose entity is invalid has no effect, and
\* DataHelper::modify_entity / remove_entity enqueue nothing for an entity
\* that is invalid at the time of the call.
C7_EventsRevalidated ==
  [][ /\ (/\ lastOp'.op = "flush_queue"
          /\ lastOp'.result \in {"Build", "Modify"}
          /\ ~is_valid(lastOp'.entity))
            => (calls' = <<>> /\ components' = components)
      /\ (/\ lastOp'.op \in {"DataHelper::modify_entity", "DataHelper::remove_entity"}
          /\ ~is_valid(lastOp'.entity))
            => event_queue' = event_queue ]_vars

\* C8: when the hook of an immediate World::create_entity or
\* World::modify_entity is delivered, no mutation requested earlier is
\* still waiting in the queue for its hook.
C8_HooksInRequestOrder ==
  (/\ lastOp.op \in {"World::create_entity", "World::modify_entity"}
   /\ \E i \in DOMAIN calls : IsHook(calls[i]))
     => event_queue = <<>>

\* C9: with_entity_data calls the callback once and yields Some exactly
\* when the entity is valid at the call; on an invalid entity it yields
\* None, makes no call and leaves store, registry and queue as they were.
C9_WithEntityDataGate ==
  [][ lastOp'.op \in {"World::with_entity_data", "DataHelper::with_entity_data"}
        => LET e == lastOp'.entity IN
           IF is_valid(e)
             THEN /\ lastOp'.result = "Some"
                  /\ CallNames(calls') = <<"callback">>
                  /\ calls'[1].entity = e
                  /\ UNCHANGED <<generation, alive, event_queue>>
             ELSE /\ lastOp'.result = "None"
                  /\ calls' = <<>>
                  /\ UNCHANGED <<components, generation, alive, event_queue>> ]_vars

\* a system called with_entity_data on a removed entity and got None, with
\* events pending in the queue
C9_Witness ==
  /\ lastOp.op = "DataHelper::with_entity_data"
  /\ lastOp.result = "None"
  /\ lastOp.entity \in removed
  /\ calls = <<>>
  /\ event_queue # <<>>

\* C10: an entity is valid right after the create_entity call that returned
\* it, and an entity to which a Remove event has been applied is invalid in
\* every later state, whatever is created afterwards.
C10_Validity ==
  /\ lastOp.op \in {"World::create_entity", "DataHelper::create_entity"}
       => is_valid(lastOp.entity)
  /\ \A e \in removed : ~is_valid(e)

\* a removed entity's slot has been handed out again: the new handle is
\* valid, the old one is not
C10_Witness ==
  \E e \in removed : \E f \in Issued :
    /\ f[1] = e[1]
    /\ f # e
    /\ is_valid(f)
    /\ ~is_valid(e)

\* C11: modify_entity on an entity that is not valid does not invoke the
\* modifier on the store and delivers no reactivated, on the immediate
\* World path and on the drained path.
C11_StaleModifyHasNoEffect ==
  [][ (/\ \/ lastOp'.op = "World::modify_entity"
          \/ lastOp'.op = "flush_queue" /\ lastOp'.result = "Modify"
       /\ ~is_valid(lastOp'.entity))
        => /\ \A i \in DOMAIN calls' :
                calls'[i].call \notin {"modify", "reactivated"}
           /\ components' = components ]_vars

EventsFor(q, e) == {i \in DOMAIN q : q[i].entity = e}

\* C12: World::create_entity applies at once: the entity it returns is
\* fresh and valid, the builder has run once on the store, activated has
\* then been delivered once and has seen the built components, and the
\* call leaves no event for the entity in the queue.
C12_WorldCreateImmediate ==
  [][ lastOp'.op = "World::create_entity"
        => LET e == lastOp'.entity IN
           /\ e \notin Issued
           /\ ValidAfter(e)
           /\ CallNames(calls') = <<"build", "activated">>
           /\ \A i \in DOMAIN calls' : calls'[i].entity = e
           /\ calls'[2].comp = "built"
           /\ components'[e] = "built"
           /\ event_queue' = event_queue
           /\ EventsFor(event_queue', e) = {} ]_vars

\* World::create_entity has returned a second entity while events queued
\* by a system are pending
C12_Witness ==
  /\ lastOp.op = "World::create_entity"
  /\ is_valid(lastOp.entity)
  /\ components[lastOp.entity] = "built"
  /\ event_queue # <<>>
  /\ EventsFor(event_queue, lastOp.entity) = {}
  /\ Cardinality(Issued) >= 2

PendingRemove(e) == \E i \in DOMAIN event_queue : event_queue[i] = RemoveEntity(e)

\* while the process step runs, an entity with a queued Remove keeps its
\* validity and its components, and with_entity_data on it yields Some
RemovalInvisibleInProcessStep ==
  /\ lastOp'.op = "DataHelper::remove_entity"
       => /\ ValidAfter(lastOp'.entity) = is_valid(lastOp'.entity)
          /\ components' = components
  /\ pc = "process" =>
       \A e \in Entity :
         (PendingRemove(e) /\ is_valid(e))
           => /\ ValidAfter(e)
              /\ components[e] # "none" => components'[e] # "none"
              /\ (lastOp'.op = "DataHelper::with_entity_data" /\ lastOp'.entity = e)
                   => lastOp'.result = "Some"

C14_DataHelperMutationsQueued ==
  [][ LET e == lastOp'.entity IN
      /\ lastOp'.op = "DataHelper::create_entity"
           => /\ event_queue' = Append(event_queue, BuildEntity(e))
              /\ calls' = <<>>
              /\ components' = components
              /\ e \notin Issued
              /\ ValidAfter(e)
              /\ \A f \in Entity \ {e} : ValidAfter(f) = is_valid(f)
      /\ lastOp'.op = "DataHelper::modify_entity"
           => /\ event_queue' = Append(event_queue, ModifyEntity(e))
              /\ calls' = <<>>
              /\ UNCHANGED <<components, generation, alive>>
      /\ lastOp'.op = "DataHelper::remove_entity"
           => /\ event_queue' = Append(event_queue, RemoveEntity(e))
              /\ calls' = <<>>
              /\ UNCHANGED <<components, generation, alive>> ]_vars

\* a process step has queued a Build, a Modify and a Remove; none has had
\* any effect on the store yet
C14_Witness ==
  /\ pc = "process"
  /\ lastOp.op = "DataHelper::modify_entity"
  /\ calls = <<>>
  /\ Len(event_queue) = 3
  /\ {event_queue[i].type : i \in DOMAIN event_queue} = {"Build", "Modify", "Remove"}
  /\ \A i \in DOMAIN event_queue : components[event_queue[i].entity] # "modified"

AppliedBuild(op) ==
  \/ op.op = "World::create_entity"
  \/ op.op = "flush_queue" /\ op.result = "Build"

AppliedModify(op) ==
  \/ op.op = "World::modify_entity"
  \/ op.op = "flush_queue" /\ op.result = "Modify"

\* C15: when a Build or a Modify is applied, at once or by the drain, the
\* callback runs on the store first and the hook then sees the components
\* it left; when a Remove is applied the hook sees the components as they
\* were and the purge follows.
C15_HookAfterBuildBeforePurge ==
  [][ LET e == lastOp'.entity IN
      /\ AppliedBuild(lastOp')
           => /\ CallNames(calls') = <<"build", "activated">>
              /\ calls'[1].comp = components[e]
              /\ calls'[2].comp = "built"
              /\ calls'[2].comp = components'[e]
      /\ AppliedModify(lastOp')
           => /\ CallNames(calls') = <<"modify", "reactivated">>
              /\ calls'[1].comp = components[e]
              /\ calls'[2].comp = "modified"
              /\ calls'[2].comp = components'[e]
      /\ AppliedRemove(lastOp')
           => /\ SubSeq(CallNames(calls'), 1, 2) = <<"deactivated", "remove_all">>
              /\ calls'[1].comp = components[e]
              /\ components'[e] = "none" ]_vars

\* the drain has applied a Modify to a built entity: the modifier saw
\* "built", reactivated saw "modified"
C15_Witness ==
  /\ lastOp.op = "flush_queue"
  /\ lastOp.result = "Modify"
  /\ Len(calls) = 2
  /\ calls[1].comp = "built"
  /\ calls[2].call = "reactivated"
  /\ calls[2].comp = "modified"

\* C16: when a Modify is applied, a system that does not override
\* reactivated observes exactly one deactivated immediately followed by
\* exactly one activated for that entity, and nothing else.
C16_ReactivationDefault ==
  [][ AppliedModify(lastOp')
        => SystemObserves(calls') =
             <<Seen("deactivated", lastOp'.entity), Seen("activated", lastOp'.entity)>> ]_vars

\* World::modify_entity has been applied to a valid entity and the default
\* system has seen the deactivated / activated pair
C16_Witness ==
  /\ lastOp.op = "World::modify_entity"
  /\ is_valid(lastOp.entity)
  /\ components[lastOp.entity] = "modified"
  /\ SystemObserves(calls) =
       <<Seen("deactivated", lastOp.entity), Seen("activated", lastOp.entity)>>

\* C17: every update() terminates: each drain iteration removes exactly the
\* event it applies and appends none, the queue never holds more than it
\* held when update() started, so the drain ends with an empty queue, the
\* process step is reached and update() returns.
C17_UpdateTerminates ==
  /\ [][ lastOp'.op = "flush_queue" => event_queue' = Tail(event_queue) ]_vars
  /\ [](pc = "flush" => Len(event_queue) <= Len(drained))
  /\ (pc = "flush") ~> (pc = "process" /\ event_queue = <<>>)
  /\ (pc # "idle") ~> (pc = "idle")

\* the process step has been reached after a drain of a full queue
C17_Witness ==
  /\ lastOp.op = "systems.update"
  /\ Len(drained) = 4
  /\ Len(AppliedEvents) = 4
  /\ event_queue = <<>>

\* the hook call c is allowed for an entity whose hooks so far gave l
LegalHook(l, c) ==
  CASE c.call = "activated" -> l[c.entity] = "none" /\ c.valid
    [] c.call = "reactivated" -> l[c.entity] = "active" /\ c.valid
    [] c.call = "deactivated" -> l[c.entity] = "active"
    [] OTHER -> TRUE

RECURSIVE LegalHooks(_, _)
LegalHooks(l, cs) ==
  \/ cs = <<>>
  \/ /\ LegalHook(l, Head(cs))
     /\ LegalHooks(AdvanceOne(l, Head(cs)), Tail(cs))

\* C18: the hooks delivered for one entity are activated, then any number
\* of reactivated, then at most one deactivated; deactivated never comes
\* before activated, and activated / reactivated never come for an entity
\* that is invalid at that moment.
C18_LifecycleProtocol == [][ LegalHooks(life, calls') ]_vars

\* C19: the component store holds components only for entities that are
\* valid in the registry.
C19_StoreOnlyForValidEntities ==
  \A e \in Entity : components[e] # "none" => is_valid(e)

====
